---- MODULE Spec2Model ----
(***************************************************************************)
(* Model of pngme: the chunk type (chunk_type.rs), the chunk (chunk.rs),   *)
(* the Png container (png.rs, declared in main.rs) and the four commands   *)
(* of main.rs.                                                             *)
(*                                                                         *)
(* Numbers: a byte is an integer in 0..255.  A u32 (and the usize values   *)
(* compared with one) is a pair <<hi, lo>> of 16-bit halves, its value     *)
(* being hi * 65536 + lo, so that the 32-bit width of the length and crc   *)
(* fields is kept.  Sequences are 1-indexed: content[1] is Rust's          *)
(* content[0].                                                             *)
(***************************************************************************)
EXTENDS Integers, Sequences, FiniteSets, TLC

VARIABLES
    tag_kind,   \* which ChunkType constructor ran last: "none", "bytes", "str"
    tag_in,     \* its argument, a sequence of bytes
    tag_res,    \* its Result
    chunk,      \* the Chunk under test (<<>> before Chunk::new, <<c>> after)
    bytes,      \* the byte buffer handed to Chunk::try_from
    origin,     \* where bytes came from: "none", "as_bytes", "tampered"
    res,        \* Result of the last Chunk::try_from(bytes), or NoResult
    file,       \* the bytes of the PNG file on disk
    before,     \* chunk sequence read from the file by the last command
    png,        \* chunk sequence of the command's Png when the command ended
    cmd         \* the last command and its outcome

vars == <<tag_kind, tag_in, tag_res, chunk, bytes, origin, res,
          file, before, png, cmd>>

tagVars == <<tag_kind, tag_in, tag_res>>
chunkVars == <<chunk, bytes, origin, res>>
pngVars == <<file, before, png, cmd>>

----------------------------------------------------------------------------
(* Bounds *)

MaxStrLen == 5      \* longest tag string tried
MaxData == 2        \* longest chunk payload / message
MaxMsg == 1         \* longest message given to the encode command
MaxChunks == 2      \* most chunks in a file

----------------------------------------------------------------------------
(* Bit and word helpers *)

Shr(x, n) == x \div (2 ^ n)

BitAnd1(x) == x % 2

RECURSIVE Xor(_, _)
Xor(a, b) ==
    IF a = 0 THEN b
    ELSE IF b = 0 THEN a
    ELSE (((a % 2) + (b % 2)) % 2) + 2 * Xor(a \div 2, b \div 2)

\* xor of two bytes and of two 16-bit halves, by table
Xor8Table == [a \in 0..255 |-> [b \in 0..255 |-> Xor(a, b)]]

Xor8(a, b) == Xor8Table[a][b]

Xor16(a, b) == Xor8(a \div 256, b \div 256) * 256 + Xor8(a % 256, b % 256)

\* u32::from_be_bytes
u32_from_be_bytes(b) == <<b[1] * 256 + b[2], b[3] * 256 + b[4]>>

\* u32::to_be_bytes
u32_to_be_bytes(w) == <<w[1] \div 256, w[1] % 256, w[2] \div 256, w[2] % 256>>

\* usize::to_be_bytes()[4..] of a 64-bit usize: the low 32 bits of a length,
\* big-endian
usize_low_be_bytes(n) ==
    <<(n \div 16777216) % 256, (n \div 65536) % 256, (n \div 256) % 256, n % 256>>

\* a length as a pair of halves (the high half is not limited to 16 bits)
ToWord(n) == <<n \div 65536, n % 65536>>

\* w + n for a usize w in halves and a small n, without wrap-around
WordAdd(w, n) == <<w[1] + ((w[2] + n) \div 65536), (w[2] + n) % 65536>>

SubSeqFrom(s, i) == SubSeq(s, i, Len(s))

SeqsUpTo(S, n) == UNION {[1..k -> S] : k \in 0..n}

----------------------------------------------------------------------------
(* chunk_type.rs *)

Ok(v) == [ok |-> TRUE, err |-> "", val |-> v]

Err(e) == [ok |-> FALSE, err |-> e, val |-> <<>>]

ErrType == "Chunk type must be a 4-byte string of ASCII letters"

ChunkType_new(content) == [content |-> content]

\* u8::is_ascii_alphabetic
is_valid_byte(x) == (x >= 65 /\ x <= 90) \/ (x >= 97 /\ x <= 122)

is_valid_chunk_type(x) == \A i \in DOMAIN x : is_valid_byte(x[i])

try_from_bytes_unchecked(x) == Ok(ChunkType_new(x))

try_from_bytes(x) ==
    IF is_valid_chunk_type(x)
    THEN Ok(ChunkType_new(x))
    ELSE Err(ErrType)

try_from_str(x) ==
    IF Len(x) = 4
    THEN try_from_bytes(x)
    ELSE Err(ErrType)

type_bytes(t) == t.content

is_critical_inverted(t) == BitAnd1(Shr(t.content[1], 5)) = 1

is_critical(t) == BitAnd1(Shr(t.content[1], 5)) = 0

is_public(t) == BitAnd1(Shr(t.content[2], 5)) = 0

is_reserved_bit_valid(t) == BitAnd1(Shr(t.content[3], 5)) = 0

is_safe_to_copy(t) == BitAnd1(Shr(t.content[4], 5)) = 1

is_valid_letters_only(t) == \A i \in DOMAIN t.content : is_valid_byte(t.content[i])

is_valid(t) ==
    (\A i \in DOMAIN t.content : is_valid_byte(t.content[i]))
        /\ is_reserved_bit_valid(t)

type_to_string_capitalized(t) ==
    [t.content EXCEPT ![1] = IF @ >= 97 /\ @ <= 122 THEN @ - 32 ELSE @]

\* Display for ChunkType: from_utf8_lossy of the content.  Every ChunkType
\* holds four ASCII letters (ChunkType::new is private and reached through
\* try_from_bytes only), so the lossy decoding substitutes nothing and the
\* string is the four bytes.
type_to_string(t) == t.content

----------------------------------------------------------------------------
(* Inputs of the chunk type constructors *)

RuSt == <<82, 117, 83, 116>>

Rust == <<82, 117, 115, 116>>

Ru1t == <<82, 117, 49, 116>>

\* 'R' 'u' 'S' 't' 'T', and the non-letters '1' '@' '[' and 0xC8
TagBytes == {82, 117, 83, 116, 84, 49, 64, 91, 200}

ShortBytes == {82, 49}

FourBytes == [1..4 -> TagBytes]

TagStrings == FourBytes \cup SeqsUpTo(ShortBytes, MaxStrLen) \cup {Rust}

----------------------------------------------------------------------------
(* Actions on chunk types *)

\* ChunkType::try_from(value: [u8; 4]) on the input drawn at the start
TypeTryFrom ==
    /\ tag_kind = "none"
    /\ Len(tag_in) = 4
    /\ tag_kind' = "bytes"
    /\ tag_res' = try_from_bytes(tag_in)
    /\ UNCHANGED <<tag_in, chunkVars, pngVars>>

\* ChunkType::from_str(s) on the input drawn at the start
TypeFromStr ==
    /\ tag_kind = "none"
    /\ tag_kind' = "str"
    /\ tag_res' = try_from_str(tag_in)
    /\ UNCHANGED <<tag_in, chunkVars, pngVars>>

----------------------------------------------------------------------------
(* chunk.rs *)

CHUNK_TYPE_SIZE == 4

CHUNK_LENGTH_SIZE == 4

CRC_SIZE == 4

MIN_CHUNK_SIZE_no_crc == CHUNK_TYPE_SIZE + CHUNK_LENGTH_SIZE

MIN_CHUNK_SIZE == CHUNK_TYPE_SIZE + CHUNK_LENGTH_SIZE + CRC_SIZE

\* The LazyCell<u32> of a chunk is <<>> while empty and <<w>> once filled.
Chunk_new(chunk_type, data) == [chunk_type |-> chunk_type, data |-> data, crc |-> <<>>]

\* CRC_32_ISO_HDLC of the crc crate: reflected polynomial 0xEDB88320, initial
\* value 0xFFFFFFFF, result xored with 0xFFFFFFFF.
CrcPolyHi == 60856

CrcPolyLo == 33568

CrcShift1(w) ==
    LET hi == w[1] \div 2
        lo == (w[2] \div 2) + (w[1] % 2) * 32768
    IN  IF w[2] % 2 = 1 THEN <<Xor(hi, CrcPolyHi), Xor(lo, CrcPolyLo)>> ELSE <<hi, lo>>

\* (the test w[1] < 0, never true, makes TLC evaluate w at each step instead
\* of at the end)
RECURSIVE CrcShift(_, _)
CrcShift(w, k) == IF k = 0 \/ w[1] < 0 THEN w ELSE CrcShift(CrcShift1(w), k - 1)

\* the table of the byte-wise algorithm: the remainder of each byte value
CrcTable == [b \in 0..255 |-> CrcShift(<<0, b>>, 8)]

\* crc' = (crc >> 8) ^ table[(crc ^ byte) & 0xFF]
CrcByte(w, b) ==
    <<Xor16(w[1] \div 256, CrcTable[Xor8(w[2] % 256, b)][1]),
      Xor16((w[1] % 256) * 256 + (w[2] \div 256), CrcTable[Xor8(w[2] % 256, b)][2])>>

RECURSIVE digest_update(_, _)
digest_update(w, s) ==
    IF s = <<>> \/ w[1] < 0 THEN w
    ELSE digest_update(CrcByte(w, Head(s)), Tail(s))

digest_finalize(w) == <<65535 - w[1], 65535 - w[2]>>

compute_crc(chunk_code, data) ==
    digest_finalize(digest_update(digest_update(<<65535, 65535>>, chunk_code), data))

length(c) == Len(c.data)

\* IChunk::crc: the value of the cell, computed when the cell is empty
crc(c) ==
    IF c.crc = <<>> THEN compute_crc(type_bytes(c.chunk_type), c.data) ELSE c.crc[1]

\* the chunk once crc() has run: borrow_with fills the empty cell
crc_filled(c) == [c EXCEPT !.crc = <<crc(c)>>]

\* to_be_bytes()[..4] of a 64-bit length below 2^32: the high half, all zero
as_bytes_high_half(c) ==
    <<0, 0, 0, 0>> \o type_bytes(c.chunk_type) \o c.data \o u32_to_be_bytes(crc(c))

as_bytes(c) ==
    usize_low_be_bytes(length(c)) \o type_bytes(c.chunk_type) \o c.data
        \o u32_to_be_bytes(crc(c))

\* next_n_bytes on an iterator that has consumed pos bytes of value; n is a
\* usize in halves.  take(n) yields what is left when fewer than n remain.
next_n_bytes(value, pos, n) ==
    LET left == Len(value) - pos
        taken == IF n[1] > 0 \/ n[2] > left THEN left ELSE n[2]
    IN  [ok |-> ToWord(taken) = n,
         val |-> SubSeq(value, pos + 1, pos + taken),
         pos |-> pos + taken]

next_four_bytes(value, pos) == next_n_bytes(value, pos, ToWord(4))

size_at_least(len, content_size) ==
    \/ ToWord(len)[1] > WordAdd(content_size, MIN_CHUNK_SIZE)[1]
    \/ /\ ToWord(len)[1] = WordAdd(content_size, MIN_CHUNK_SIZE)[1]
       /\ ToWord(len)[2] >= WordAdd(content_size, MIN_CHUNK_SIZE)[2]

\* value.len() == content_size + Chunk::MIN_CHUNK_SIZE
size_matches(len, content_size) == ToWord(len) = WordAdd(content_size, MIN_CHUNK_SIZE)

crc_unchecked(computed_crc, expected_crc) == TRUE

\* computed_crc == expected_crc
crc_matches(computed_crc, expected_crc) == computed_crc = expected_crc

ErrTooShort == "Input array is too short"

ErrSize == "Malformed input byte array: input size doesn't match the actual chunk size"

ErrNext == "Tried to retrieve next bytes, could only retrieve fewer"

ErrTrailing == "Malformed input byte array"

ErrCrc == "CRC mismatch"

\* Chunk::try_from(value: &[u8])
Chunk_try_from(value) ==
    IF Len(value) < MIN_CHUNK_SIZE THEN Err(ErrTooShort)
    ELSE
    LET r1 == next_four_bytes(value, 0) IN
    IF ~r1.ok THEN Err(ErrNext)
    ELSE
    LET content_size == u32_from_be_bytes(r1.val) IN
    IF ~size_matches(Len(value), content_size) THEN Err(ErrSize)
    ELSE
    LET r2 == next_four_bytes(value, r1.pos) IN
    IF ~r2.ok THEN Err(ErrNext)
    ELSE
    LET t == try_from_bytes(r2.val) IN
    IF ~t.ok THEN Err(t.err)
    ELSE
    LET r3 == next_n_bytes(value, r2.pos, content_size) IN
    IF ~r3.ok THEN Err(ErrNext)
    ELSE
    LET r4 == next_four_bytes(value, r3.pos) IN
    IF ~r4.ok THEN Err(ErrNext)
    ELSE
    LET expected_crc == u32_from_be_bytes(r4.val)
        computed_crc == compute_crc(type_bytes(t.val), r3.val)
    IN
    IF r4.pos < Len(value) THEN Err(ErrTrailing)
    ELSE IF ~crc_matches(computed_crc, expected_crc) THEN Err(ErrCrc)
    ELSE Ok(Chunk_new(t.val, r3.val))

----------------------------------------------------------------------------
(* Inputs of the chunk operations *)

ChunkTags == {RuSt, Rust, <<114, 117, 83, 84>>}

PayloadBytes == {104, 0}

Payloads == SeqsUpTo(PayloadBytes, MaxData)

\* values written over a byte of a serialized chunk: 1, '1' and 't'
TamperBytes == {1, 49, 116}

Tamperings(b) ==
    {[b EXCEPT ![i] = v] : i \in DOMAIN b, v \in TamperBytes}
        \cup {SubSeq(b, 1, k) : k \in 0..(Len(b) - 1)}
        \cup {Append(b, v) : v \in TamperBytes}
        \cup {Append([b EXCEPT ![i] = 49], v) : i \in (5..8) \cap DOMAIN b, v \in TamperBytes}

NoResult == [ok |-> FALSE, err |-> "none", val |-> <<>>]

----------------------------------------------------------------------------
(* Actions on chunks *)

\* Chunk::new on a chunk type obtained from ChunkType::from_str
ChunkNew ==
    /\ chunk = <<>>
    /\ \E s \in ChunkTags, data \in Payloads :
        /\ try_from_str(s).ok
        /\ chunk' = <<Chunk_new(try_from_str(s).val, data)>>
    /\ UNCHANGED <<bytes, origin, res, tagVars, pngVars>>

\* chunk.as_bytes(); the call of crc() in it fills the cell
ChunkAsBytes ==
    /\ chunk # <<>>
    /\ origin = "none"
    /\ bytes' = as_bytes(chunk[1])
    /\ chunk' = <<crc_filled(chunk[1])>>
    /\ origin' = "as_bytes"
    /\ res' = NoResult
    /\ UNCHANGED <<tagVars, pngVars>>

\* the caller hands over other bytes than as_bytes produced
Tamper ==
    /\ origin = "as_bytes"
    /\ \E b \in Tamperings(bytes) : bytes' = b
    /\ origin' = "tampered"
    /\ res' = NoResult
    /\ UNCHANGED <<chunk, tagVars, pngVars>>

\* Chunk::try_from(bytes)
ChunkTryFrom ==
    /\ origin # "none"
    /\ res = NoResult
    /\ res' = Chunk_try_from(bytes)
    /\ UNCHANGED <<chunk, bytes, origin, tagVars, pngVars>>

----------------------------------------------------------------------------
(* png.rs: the Png container behind the calls of main.rs *)

STANDARD_HEADER == <<137, 80, 78, 71, 13, 10, 26, 10>>

ErrSignature == "Bad signature"

ErrNotFound == "Chunk not found"

\* the bytes of the chunk that starts rest: 12 + L of them, where L is the
\* length field, or all of rest when fewer are left
chunk_slice(rest) ==
    IF Len(rest) < MIN_CHUNK_SIZE THEN rest
    ELSE LET L == u32_from_be_bytes(SubSeq(rest, 1, 4))
         IN  IF L[1] > 0 \/ L[2] + MIN_CHUNK_SIZE > Len(rest)
             THEN rest
             ELSE SubSeq(rest, 1, L[2] + MIN_CHUNK_SIZE)

RECURSIVE parse_chunks(_)
parse_chunks(rest) ==
    IF rest = <<>> THEN Ok(<<>>)
    ELSE LET c == Chunk_try_from(chunk_slice(rest)) IN
         IF ~c.ok THEN c
         ELSE LET more == parse_chunks(SubSeqFrom(rest, Len(chunk_slice(rest)) + 1)) IN
              IF ~more.ok THEN more ELSE Ok(<<c.val>> \o more.val)

\* Png::try_from(bytes: &[u8])
Png_try_from(b) ==
    IF Len(b) < Len(STANDARD_HEADER) \/ SubSeq(b, 1, Len(STANDARD_HEADER)) # STANDARD_HEADER
    THEN Err(ErrSignature)
    ELSE parse_chunks(SubSeqFrom(b, Len(STANDARD_HEADER) + 1))

RECURSIVE chunks_as_bytes(_)
chunks_as_bytes(chunks) ==
    IF chunks = <<>> THEN <<>>
    ELSE as_bytes(Head(chunks)) \o chunks_as_bytes(Tail(chunks))

\* Png::as_bytes
Png_as_bytes(chunks) == STANDARD_HEADER \o chunks_as_bytes(chunks)

\* the chunks once Png::as_bytes has run: as_bytes of each fills its crc cell
chunks_filled(chunks) == [i \in DOMAIN chunks |-> crc_filled(chunks[i])]

\* Png::append_chunk
append_chunk(chunks, c) == Append(chunks, c)

Matches(chunks, chunk_type) ==
    {i \in DOMAIN chunks : type_to_string(chunks[i].chunk_type) = chunk_type}

First(S) == CHOOSE i \in S : \A j \in S : i <= j

RemoveAt(chunks, i) == SubSeq(chunks, 1, i - 1) \o SubSeqFrom(chunks, i + 1)

\* Png::remove_chunk(&mut self, chunk_type: &str): the result and the chunks left
remove_chunk(chunks, chunk_type) ==
    IF Matches(chunks, chunk_type) = {}
    THEN [ok |-> FALSE, err |-> ErrNotFound, val |-> <<>>, chunks |-> chunks]
    ELSE [ok |-> TRUE, err |-> "", val |-> chunks[First(Matches(chunks, chunk_type))],
          chunks |-> RemoveAt(chunks, First(Matches(chunks, chunk_type)))]

----------------------------------------------------------------------------
(* main.rs *)

\* read_png_from_file: the file is read whole and parsed (a failing fs::read
\* is not modelled)
read_png_from_file(f) == Png_try_from(f)

\* write_png: the bytes fs::write puts in the file (a failing fs::write is not
\* modelled)
write_png(chunks) == Png_as_bytes(chunks)

\* IChunk::data_as_string: from_utf8_lossy of the data.  Exact for ASCII
\* bytes, the only ones a message of this model holds.
data_as_string(c) == Ok([i \in DOMAIN c.data |-> IF c.data[i] < 128 THEN c.data[i] ELSE 65533])

\* 'h'
MessageBytes == {104}

Messages == SeqsUpTo(MessageBytes, MaxMsg)

ruSt == <<114, 117, 83, 116>>

\* the chunk_type argument of a command: two tags, a string with a digit
\* and a string of three letters
CmdTags == {RuSt, ruSt, Ru1t, <<82, 117, 83>>}

Outcome(op, chunk_type, read_ok, ok, err, c, out) ==
    [op |-> op, chunk_type |-> chunk_type, read_ok |-> read_ok, ok |-> ok,
     err |-> err, chunk |-> c, out |-> out]

NoCmd == Outcome("none", <<>>, FALSE, FALSE, "", <<>>, <<>>)

\* Command::Encode { path, chunk_type, message }
Encode ==
    \E chunk_type \in CmdTags, message \in Messages :
    \E t \in {try_from_str(chunk_type)} :
        IF ~t.ok
        THEN /\ cmd' = Outcome("encode", chunk_type, FALSE, FALSE, t.err, <<>>, <<>>)
             /\ before' = <<>>
             /\ png' = <<>>
             /\ UNCHANGED <<file, tagVars, chunkVars>>
        ELSE
        \E r \in {read_png_from_file(file)} :
        IF ~r.ok
        THEN /\ cmd' = Outcome("encode", chunk_type, FALSE, FALSE, r.err, <<>>, <<>>)
             /\ before' = <<>>
             /\ png' = <<>>
             /\ UNCHANGED <<file, tagVars, chunkVars>>
        ELSE
        \E appended \in {append_chunk(r.val, Chunk_new(t.val, message))} :
             /\ Len(r.val) < MaxChunks
             /\ file' = write_png(appended)
             /\ before' = r.val
             /\ png' = chunks_filled(appended)
             /\ cmd' = Outcome("encode", chunk_type, TRUE, TRUE, "",
                               <<Chunk_new(t.val, message)>>, <<>>)
             /\ UNCHANGED <<tagVars, chunkVars>>

\* Command::Decode { path, chunk_type }
Decode ==
    \E chunk_type \in CmdTags :
    \E r \in {read_png_from_file(file)} :
        IF ~r.ok
        THEN /\ cmd' = Outcome("decode", chunk_type, FALSE, FALSE, r.err, <<>>, <<>>)
             /\ before' = <<>>
             /\ png' = <<>>
             /\ UNCHANGED <<file, tagVars, chunkVars>>
        ELSE
        \E rm \in {remove_chunk(r.val, chunk_type)} :
             /\ before' = r.val
             /\ png' = rm.chunks
             /\ cmd' = IF rm.ok
                       THEN Outcome("decode", chunk_type, TRUE, TRUE, "", <<rm.val>>,
                                    data_as_string(rm.val).val)
                       ELSE Outcome("decode", chunk_type, TRUE, FALSE, rm.err, <<>>, <<>>)
             /\ UNCHANGED <<file, tagVars, chunkVars>>

\* Command::Remove { path, chunk_type }
Remove ==
    \E chunk_type \in CmdTags :
    \E r \in {read_png_from_file(file)} :
        IF ~r.ok
        THEN /\ cmd' = Outcome("remove", chunk_type, FALSE, FALSE, r.err, <<>>, <<>>)
             /\ before' = <<>>
             /\ png' = <<>>
             /\ UNCHANGED <<file, tagVars, chunkVars>>
        ELSE
        \E rm \in {remove_chunk(r.val, chunk_type)} :
             /\ before' = r.val
             /\ IF rm.ok
                THEN /\ file' = write_png(rm.chunks)
                     /\ png' = chunks_filled(rm.chunks)
                     /\ cmd' = Outcome("remove", chunk_type, TRUE, TRUE, "", <<rm.val>>, <<>>)
                ELSE /\ file' = file
                     /\ png' = rm.chunks
                     /\ cmd' = Outcome("remove", chunk_type, TRUE, FALSE, rm.err, <<>>, <<>>)
             /\ UNCHANGED <<tagVars, chunkVars>>

\* Command::Print { path }: the Png is read and displayed; the text of the
\* display is not modelled
PrintPng ==
    \E r \in {read_png_from_file(file)} :
    /\ cmd' = Outcome("print", <<>>, r.ok, r.ok, r.err, <<>>, <<>>)
    /\ before' = IF r.ok THEN r.val ELSE <<>>
    /\ png' = IF r.ok THEN r.val ELSE <<>>
    /\ UNCHANGED <<file, tagVars, chunkVars>>

----------------------------------------------------------------------------
(* Specifications *)

InitTypeVars ==
    /\ tag_kind = "none"
    /\ tag_in = <<>>
    /\ tag_res = NoResult

InitChunkVars ==
    /\ chunk = <<>>
    /\ bytes = <<>>
    /\ origin = "none"
    /\ res = NoResult

InitPngVars ==
    /\ file = STANDARD_HEADER
    /\ before = <<>>
    /\ png = <<>>
    /\ cmd = NoCmd

\* the file is a Png without chunks, or is no Png at all
Init ==
    /\ InitTypeVars
    /\ InitChunkVars
    /\ file \in {STANDARD_HEADER, <<>>}
    /\ before = <<>>
    /\ png = <<>>
    /\ cmd = NoCmd

\* the commands of main.rs on a file
Next == Encode \/ Decode \/ Remove \/ PrintPng

Spec == Init /\ [][Next]_vars

\* the constructors of ChunkType on every input
NextType == TypeTryFrom \/ TypeFromStr

InitType ==
    /\ tag_kind = "none"
    /\ tag_in \in TagStrings
    /\ tag_res = NoResult
    /\ InitChunkVars
    /\ InitPngVars

SpecType == InitType /\ [][NextType]_vars

\* Chunk::new, as_bytes and try_from on serialized and tampered bytes
NextChunk == ChunkNew \/ ChunkAsBytes \/ Tamper \/ ChunkTryFrom

InitChunk == InitTypeVars /\ InitChunkVars /\ InitPngVars

SpecChunk == InitChunk /\ [][NextChunk]_vars

----------------------------------------------------------------------------
(* Properties *)

Letters == (65..90) \cup (97..122)

\* bit 5 of a byte is 1
Bit5(b) == (b % 64) >= 32

\* the length field of bytes says Len(bytes) - 12
LengthFieldFits(b) ==
    /\ b[1] = 0 /\ b[2] = 0
    /\ b[3] * 256 + b[4] + 12 = Len(b)

\* the input of the last Chunk::try_from has 12 bytes or more
Parsed == res # NoResult /\ Len(bytes) >= 12

\* the CRC-32 of tag ++ payload of an input whose length field fits, and the
\* value of its last four bytes
CrcOfBody(b) == digest_finalize(digest_update(<<65535, 65535>>, SubSeq(b, 5, Len(b) - 4)))

CrcField(b) == <<b[Len(b) - 3] * 256 + b[Len(b) - 2], b[Len(b) - 1] * 256 + b[Len(b)]>>

SameChunk(a, b) ==
    /\ a.chunk_type.content = b.chunk_type.content
    /\ a.data = b.data
    /\ crc(a) = crc(b)

\* C1: parsing the bytes as_bytes gives for Chunk::new(t, p) succeeds and
\* yields a chunk with the same tag bytes, payload and checksum.
C1_RoundTrip ==
    (origin = "as_bytes" /\ res # NoResult) =>
        /\ res.ok
        /\ SameChunk(res.val, chunk[1])
        /\ SameChunk(res.val, Chunk_new(chunk[1].chunk_type, chunk[1].data))

C1_Witness ==
    /\ origin = "as_bytes"
    /\ res.ok
    /\ Len(chunk[1].data) > 0

\* C2: an input of 12 bytes or more fails with the size-mismatch error
\* exactly when its length is not L + 12, L being the big-endian value of its
\* first four bytes, whatever its tag and checksum are.
C2_SizeMismatch ==
    Parsed => ((res.err = ErrSize) <=> ~LengthFieldFits(bytes))

\* an over-padded input whose tag holds a digit
C2_Witness ==
    /\ Parsed
    /\ res.err = ErrSize
    /\ bytes[1] = 0 /\ bytes[2] = 0 /\ bytes[3] * 256 + bytes[4] + 12 < Len(bytes)
    /\ \E i \in 5..8 : bytes[i] \notin Letters

\* C3: an input that passes the length and tag checks parses to a chunk if
\* and only if the CRC-32 of tag ++ payload equals the value of its last four
\* bytes; otherwise the result is the checksum-mismatch error and no chunk.
C3_ChecksumDecides ==
    (Parsed /\ LengthFieldFits(bytes) /\ \A i \in 5..8 : bytes[i] \in Letters) =>
        /\ res.ok <=> (CrcOfBody(bytes) = CrcField(bytes))
        /\ res.ok => res.val = Chunk_new(ChunkType_new(SubSeq(bytes, 5, 8)),
                                         SubSeq(bytes, 9, Len(bytes) - 4))
        /\ ~res.ok => res = Err(ErrCrc)

C3_Witness ==
    /\ Parsed /\ LengthFieldFits(bytes)
    /\ \A i \in 5..8 : bytes[i] \in Letters
    /\ CrcOfBody(bytes) # CrcField(bytes)
    /\ origin = "tampered"
    /\ res.err = ErrCrc

\* C4 as stated: ChunkType::try_from([u8; 4]) succeeds for every value of
\* the four bytes.
C4_AlwaysSucceeds == tag_kind = "bytes" => tag_res.ok

\* C4 amended: ChunkType::try_from([u8; 4]) succeeds exactly when the four
\* bytes are ASCII letters, and then holds these bytes; is_valid (which also
\* asks for the reserved bit) is no precondition of it.
C4_SucceedsIffLetters ==
    tag_kind = "bytes" =>
        /\ tag_res.ok <=> (\A i \in 1..4 : tag_in[i] \in Letters)
        /\ tag_res.ok => type_bytes(tag_res.val) = tag_in
        /\ ~tag_res.ok => tag_res = Err(ErrType)

\* a chunk type built from bytes that is not valid
C4_Witness ==
    /\ tag_kind = "bytes"
    /\ tag_res.ok
    /\ ~is_valid(tag_res.val)

\* C5: after decode the chunk sequence of the container is the one read
\* from the file, whether or not a chunk was found.
C5_DecodeKeepsChunks ==
    (cmd.op = "decode" /\ cmd.read_ok) => png = before

\* C6: remove_chunk with a tag no chunk of the container has fails with the
\* not-found error and leaves the chunk sequence, in memory and in the file,
\* as it was.
C6_RemoveAbsent ==
    (/\ cmd.op \in {"decode", "remove"}
     /\ cmd.read_ok
     /\ \A i \in DOMAIN before : before[i].chunk_type.content # cmd.chunk_type) =>
        /\ ~cmd.ok
        /\ cmd.err = ErrNotFound
        /\ png = before
        /\ read_png_from_file(file) = Ok(before)

C6_Witness ==
    /\ cmd.op = "remove"
    /\ cmd.read_ok
    /\ before # <<>>
    /\ \A i \in DOMAIN before : before[i].chunk_type.content # cmd.chunk_type
    /\ cmd.err = ErrNotFound

\* C7: after a chunk is appended and the container written, parsing the
\* bytes succeeds and yields the original chunks in their order followed by
\* the new chunk.
C7_AppendRoundTrip ==
    (cmd.op = "encode" /\ cmd.ok) =>
        /\ read_png_from_file(file).ok
        /\ Len(read_png_from_file(file).val) = Len(before) + 1
        /\ \A i \in DOMAIN before : SameChunk(read_png_from_file(file).val[i], before[i])
        /\ SameChunk(read_png_from_file(file).val[Len(before) + 1], cmd.chunk[1])

C7_Witness ==
    /\ cmd.op = "encode"
    /\ cmd.ok
    /\ before # <<>>
    /\ Len(cmd.chunk[1].data) > 0

\* C8: is_critical is true exactly when bit 5 of byte 0 is 0, is_public when
\* bit 5 of byte 1 is 0, is_safe_to_copy when bit 5 of byte 3 is 1, whatever
\* the other bytes and is_valid are; "RuSt" is critical, not public and safe
\* to copy.
C8_FlagBits ==
    tag_res.ok =>
        /\ is_critical(tag_res.val) <=> ~Bit5(tag_in[1])
        /\ is_public(tag_res.val) <=> ~Bit5(tag_in[2])
        /\ is_safe_to_copy(tag_res.val) <=> Bit5(tag_in[4])
        /\ tag_in = RuSt =>
            /\ is_critical(tag_res.val)
            /\ ~is_public(tag_res.val)
            /\ is_safe_to_copy(tag_res.val)

\* a chunk type that is not valid and is critical, not public, safe to copy
C8_Witness ==
    /\ tag_res.ok
    /\ ~is_valid(tag_res.val)
    /\ is_critical(tag_res.val)
    /\ ~is_public(tag_res.val)
    /\ is_safe_to_copy(tag_res.val)

\* C9: is_valid is true exactly when the four bytes are ASCII letters and
\* bit 5 of byte 2 is 0; from_str accepts "Rust", whose is_valid is false,
\* and rejects "Ru1t".
C9_IsValid ==
    /\ tag_res.ok =>
        (is_valid(tag_res.val) <=>
            ((\A i \in 1..4 : tag_in[i] \in Letters) /\ ~Bit5(tag_in[3])))
    /\ (tag_kind = "str" /\ tag_in = Rust) => (tag_res.ok /\ ~is_valid(tag_res.val))
    /\ (tag_kind = "str" /\ tag_in = Ru1t) => ~tag_res.ok

C9_Witness ==
    /\ tag_kind = "str"
    /\ tag_in = Rust
    /\ tag_res.ok
    /\ ~is_valid(tag_res.val)

\* C10: an input of 12 bytes or more whose length is L + 12 fails on the
\* tag or on the checksum only: no read of the tag, payload or checksum
\* comes short and no byte is left after the checksum.
C10_OnlyTagOrCrc ==
    (Parsed /\ LengthFieldFits(bytes)) => (res.ok \/ res.err \in {ErrType, ErrCrc})

C10_Witness ==
    /\ Parsed /\ LengthFieldFits(bytes)
    /\ res.err = ErrType

====
